---- MODULE Spec2Model ----
(***************************************************************************)
(* Model of redis-ttl: Scanner.Run walks the keys a SCAN yields and sends  *)
(* one EXPIRE/PERSIST variant per key, paced by an optional Limiter.       *)
(*                                                                         *)
(* Durations are counted in ticks of half a second, so that a DesiredTTL   *)
(* that is not a whole number of seconds exists in the model: go-redis     *)
(* sends the expiration of Expire/ExpireGT/... in whole seconds.           *)
(* Errors are chains of messages (fmt.Errorf's %w puts a message in front  *)
(* of the wrapped chain); the empty chain is nil.                          *)
(***************************************************************************)
EXTENDS Integers, Sequences, FiniteSets, TLC

\* ------------------------------------------------------------------ bounds

\* Largest remaining TTL, in ticks, a key of the initial database carries.
MaxTTL == 3
\* Largest DesiredTTL, in ticks, a Scanner is configured with.
MaxDesired == 4

\* ------------------------------------------------------------- durations

\* time.Second, in ticks.
Second == 2

\* A key without expiration reads TTL 0 (as the tests' rs.TTL does).
NoTTL == 0
\* A key that is not in the database.
NoKey == -1

\* ----------------------------------------------------------------- errors

Nil == <<>>
errInvalidMode == <<"invalid mode">>
errLimit == <<"dummy limiter error">>
errCanceled == <<"context canceled">>
errScan == <<"scan call failed">>
errExpire == <<"expire call failed">>

\* fmt.Errorf("msg: %w", err)
Wrap(msg, err) == <<msg>> \o err

\* errors.Is(err, target): target is err or one of the errors err wraps.
Is(err, target) ==
    /\ target # Nil
    /\ \E i \in 1..Len(err) : SubSeq(err, i, Len(err)) = target

\* ------------------------------------------------------------------ store

foo == <<"f", "o", "o">>
zoo == <<"z", "o", "o">>

Keys == {foo, zoo}
\* The orders in which the store's cursor may walk the keyspace.
KeyOrders == {<<foo, zoo>>, <<zoo, foo>>}

\* The data type of each key (SCAN ... TYPE filters on it).
KeyType(k) == IF k = zoo THEN "hash" ELSE "string"

\* The glob match of SCAN ... MATCH pattern: literal characters and "*".
RECURSIVE Match(_, _)
Match(p, s) ==
    IF p = <<>> THEN s = <<>>
    ELSE IF Head(p) = "*"
         THEN Match(Tail(p), s) \/ (s # <<>> /\ Match(p, Tail(s)))
         ELSE s # <<>> /\ Head(s) = Head(p) /\ Match(Tail(p), Tail(s))

\* ScanType(ctx, 0, prefix, count, keyType): an empty keyType sends no TYPE.
TypeOk(keyType, k) == keyType = "" \/ KeyType(k) = keyType

\* ---------------------------------------------------------- TTL commands

\* go-redis formatSec: the expiration of EXPIRE is sent in whole seconds; a
\* positive duration under one second is sent as 1, any other is truncated.
formatSec(dur) == IF dur > 0 /\ dur < Second THEN 1 ELSE dur \div Second

\* The condition of EXPIRE key seconds [NX|XX|GT|LT] on a key whose remaining
\* TTL is cur, when the new TTL is when. For GT and LT a key without TTL
\* counts as having an infinite one.
ExpireAppliesGE(flag, cur, when) ==
    CASE flag = "NX" -> cur = NoTTL
      [] flag = "XX" -> cur # NoTTL
      [] flag = "GT" -> cur # NoTTL /\ when >= cur
      [] flag = "LT" -> cur = NoTTL \/ when < cur
      [] OTHER -> TRUE
ExpireAppliesNoFlag(flag, cur, when) == TRUE
ExpireApplies(flag, cur, when) ==
    CASE flag = "NX" -> cur = NoTTL
      [] flag = "XX" -> cur # NoTTL
      [] flag = "GT" -> cur # NoTTL /\ when > cur
      [] flag = "LT" -> cur = NoTTL \/ when < cur
      [] OTHER -> TRUE

\* The reply (ok) and the key's TTL after c.Expire / ExpireGT / ExpireLT /
\* ExpireNX / ExpireXX (key, dur): a missing key replies 0; a new TTL that is
\* not positive deletes the key.
ExpireCmdAdds(flag, cur, dur) ==
    LET when == formatSec(dur) * Second IN
    IF cur = NoKey THEN [ok |-> FALSE, ttl |-> NoKey]
    ELSE IF ~ExpireApplies(flag, cur, when) THEN [ok |-> FALSE, ttl |-> cur]
    ELSE IF when <= 0 THEN [ok |-> TRUE, ttl |-> NoKey]
    ELSE [ok |-> TRUE, ttl |-> cur + when]
ExpireCmd(flag, cur, dur) ==
    LET when == formatSec(dur) * Second IN
    IF cur = NoKey THEN [ok |-> FALSE, ttl |-> NoKey]
    ELSE IF ~ExpireApplies(flag, cur, when) THEN [ok |-> FALSE, ttl |-> cur]
    ELSE IF when <= 0 THEN [ok |-> TRUE, ttl |-> NoKey]
    ELSE [ok |-> TRUE, ttl |-> when]

\* The reply and the key's TTL after c.Persist(key): 1 only if a TTL was removed.
PersistCmdCreates(cur) == [ok |-> TRUE, ttl |-> NoTTL]
PersistCmd(cur) ==
    IF cur = NoKey THEN [ok |-> FALSE, ttl |-> NoKey]
    ELSE [ok |-> cur # NoTTL, ttl |-> NoTTL]

\* The keys of the ttlFuncs map.
TtlFuncsWithDefault == {"exp", "gt", "lt", "nx", "xx", "noop", "persist", "zx"}
TtlFuncs == {"exp", "gt", "lt", "nx", "xx", "noop", "persist"}

\* The modes whose function sends a command to the store.
SendsCommandAlways(mode) == mode \in TtlFuncs
SendsCommand(mode) == mode \in TtlFuncs \ {"noop"}

\* ttlFuncs[mode](ctx, key, ttl) when the store answers: the reply and the
\* key's TTL afterwards. noop builds a BoolCmd that is never sent.
ttlFuncsExpIsNX(mode, cur, dur) ==
    CASE mode = "exp" -> ExpireCmd("NX", cur, dur)
      [] mode = "gt" -> ExpireCmd("GT", cur, dur)
      [] mode = "lt" -> ExpireCmd("LT", cur, dur)
      [] mode = "nx" -> ExpireCmd("NX", cur, dur)
      [] mode = "xx" -> ExpireCmd("XX", cur, dur)
      [] mode = "persist" -> PersistCmd(cur)
      [] OTHER -> [ok |-> FALSE, ttl |-> cur]
ttlFuncsPersistUsesTTL(mode, cur, dur) ==
    CASE mode = "exp" -> ExpireCmd("", cur, dur)
      [] mode = "gt" -> ExpireCmd("GT", cur, dur)
      [] mode = "lt" -> ExpireCmd("LT", cur, dur)
      [] mode = "nx" -> ExpireCmd("NX", cur, dur)
      [] mode = "xx" -> ExpireCmd("XX", cur, dur)
      [] mode = "persist" -> ExpireCmd("", cur, dur)
      [] OTHER -> [ok |-> FALSE, ttl |-> cur]
ttlFuncs(mode, cur, dur) ==
    CASE mode = "exp" -> ExpireCmd("", cur, dur)
      [] mode = "gt" -> ExpireCmd("GT", cur, dur)
      [] mode = "lt" -> ExpireCmd("LT", cur, dur)
      [] mode = "nx" -> ExpireCmd("NX", cur, dur)
      [] mode = "xx" -> ExpireCmd("XX", cur, dur)
      [] mode = "persist" -> PersistCmd(cur)
      [] OTHER -> [ok |-> FALSE, ttl |-> cur]

\* ------------------------------------------------------------------- scan

\* A key the scan yields: it exists, matches the pattern and has the asked type.
ScanMatchAll(prefix, keyType, d, k) == d[k] # NoKey
ScanMatch(prefix, keyType, d, k) ==
    /\ d[k] # NoKey
    /\ Match(prefix, k)
    /\ TypeOk(keyType, k)

\* One SCAN request at cursor c that walks n slots of the keyspace ks of
\* database d: the keys among them that the scan yields, and the next
\* cursor (0 when the walk is complete).
ScanReply(ks, c, n, prefix, keyType, d) ==
    [page |-> SelectSeq(SubSeq(ks, c + 1, c + n),
                        LAMBDA k : ScanMatch(prefix, keyType, d, k)),
     cursor |-> IF c + n >= Len(ks) THEN 0 ELSE c + n]

\* ------------------------------------------------------------------ state

VARIABLES
    keyspace,   \* the order in which the store's cursor walks the keys
    variant,    \* which Run: "abort" returns a key's command error, "continue" logs it
    f,          \* the Scanner: Mode, ScanPrefix, ScanType, DesiredTTL, Limiter
    db,         \* the store: key -> remaining TTL (NoTTL, or NoKey)
    db0,        \* the store when Run was called
    iter,       \* the ScanIterator: page, pos, cursor, err
    pc,         \* where Run is
    ret,        \* what Run returned (when pc = "done")
    cancelled,  \* ctx is cancelled
    calls,      \* the invocations of fn: key, TTL before and after, ok, err,
                \* and whether fn sent a command to the store
    waits,      \* what each Limiter.Wait returned
    scans,      \* each SCAN request: its error, and how many calls of fn preceded it
    logs,       \* the lines Run logged
    clusterNodes,  \* the CLUSTER NODES report handed to PrimaryNodesFromClusterNodes
    primaries,     \* what PrimaryNodesFromClusterNodes did with it
    cfg,           \* the config of run() once the flags are parsed
    started,       \* how far run() got: its state, the error it returned,
                   \* and the clients it created
    text,          \* the text handed to ttl.UnmarshalText
    parsed,        \* what ttl.UnmarshalText did with it: the ttl's dur and the error
    shards,        \* the per-primary runs of the fan-out: state, keys left, error
    group,         \* the errgroup.Group: goroutines started, err, and what Wait returned
    failOrder,     \* the shards whose run failed, in the order they failed
    runs           \* which Run of the job this is, and whether no command of
                   \* the Run before it failed

\* The state of one Scanner.Run and its store.
scanVars == <<keyspace, variant, f, db, db0, iter, pc, ret, cancelled, calls, waits, scans, logs>>
\* The state of the command around it.
resolverVars == <<clusterNodes, primaries>>
configVars == <<cfg, started>>
ttlVars == <<text, parsed>>
groupVars == <<shards, group, failOrder>>
rerunVars == <<runs>>
toolVars == <<resolverVars, configVars, ttlVars, groupVars, rerunVars>>

vars == <<scanVars, toolVars>>

Modes == TtlFuncs \cup {"zx"}
Patterns == {<<"f", "*">>, <<"*">>}
ScanTypes == {"", "string"}
\* No limiter, rate.NewLimiter of main, and the tests' dummyLimiter{err: errLimit}.
Limiters == {"nil", "rate", "dummy"}

\* config.Err: a DesiredTTL <= 0 is accepted for mode persist only.
ValidTTL(mode, dur) == dur > 0 \/ mode = "persist"

\* Nothing of the command around the Scanner has run.
ResolverIdle ==
    /\ clusterNodes = <<>>
    /\ primaries = [state |-> "none", nodes |-> <<>>]

ConfigIdle ==
    /\ cfg = [mode |-> "", desiredTTL |-> 0, rps |-> 0, redisAddr |-> "",
              redisClusterAddrs |-> ""]
    /\ started = [state |-> "none", err |-> Nil, clients |-> {}]

TtlIdle ==
    /\ text = <<>>
    /\ parsed = [state |-> "none", dur |-> 0, err |-> Nil]

GroupIdle ==
    /\ shards = <<>>
    /\ group = [state |-> "none", started |-> 0, err |-> Nil, ret |-> Nil]
    /\ failOrder = <<>>

RerunIdle == runs = [n |-> 1, clean |-> TRUE]

ToolIdle == ResolverIdle /\ ConfigIdle /\ TtlIdle /\ GroupIdle /\ RerunIdle

Scanners(v) ==
    {s \in [Mode : Modes, ScanPrefix : Patterns, ScanType : ScanTypes,
            DesiredTTL : 0..MaxDesired, Limiter : Limiters] :
        /\ ValidTTL(s.Mode, s.DesiredTTL)
        /\ v = "abort" => s.Limiter = "nil" /\ s.ScanType = ""}

Init ==
    /\ keyspace \in KeyOrders
    /\ variant \in {"abort", "continue"}
    /\ f \in Scanners(variant)
    /\ db \in [Keys -> NoTTL..MaxTTL]
    /\ db0 = db
    /\ iter = [page |-> <<>>, pos |-> 0, cursor |-> 0, err |-> Nil]
    /\ pc = "created"
    /\ ret = Nil
    /\ cancelled = FALSE
    /\ calls = <<>>
    /\ waits = <<>>
    /\ scans = <<>>
    /\ logs = <<>>
    /\ ToolIdle

\* ------------------------------------------------------------- collaborators

\* The error of a SCAN request: a cancelled ctx fails it, and the store may.
ScanErrs == IF cancelled THEN {errCanceled} ELSE {Nil, errScan}

\* The error of an EXPIRE/PERSIST command, likewise.
CmdErrs == IF cancelled THEN {errCanceled} ELSE {Nil, errExpire}

\* Limiter.Wait(ctx): dummyLimiter returns its err; rate.Limiter returns the
\* ctx's error once ctx is cancelled.
LimiterWait(l) ==
    CASE l = "dummy" -> errLimit
      [] l = "rate" /\ cancelled -> errCanceled
      [] OTHER -> Nil

\* Scanner.wait
wait == IF f.Limiter # "nil" THEN LimiterWait(f.Limiter) ELSE Nil

\* ----------------------------------------------------------------- Run

\* fn, found := ttlFuncs[f.Mode]
found(mode) == mode \in TtlFuncs

\* The return of an unsupported mode.
ModeError == Wrap("mode is not supported", errInvalidMode)

\* Run up to its loop: ScanType(...).Iterator() sends the first SCAN, then the
\* mode is looked up.
RunStart ==
    /\ pc = "created"
    /\ \E e \in ScanErrs, n \in 1..Len(keyspace) :
         LET r == ScanReply(keyspace, 0, n, f.ScanPrefix, f.ScanType, db) IN
         /\ scans' = Append(scans, [err |-> e, calls |-> Len(calls)])
         /\ iter' = IF e = Nil
                    THEN [page |-> r.page, pos |-> 0, cursor |-> r.cursor, err |-> Nil]
                    ELSE [iter EXCEPT !.err = e]
    /\ IF found(f.Mode)
       THEN pc' = "next" /\ ret' = ret
       ELSE pc' = "done" /\ ret' = ModeError
    /\ UNCHANGED <<keyspace, variant, f, db, db0, cancelled, calls, waits, logs>>
    /\ UNCHANGED toolVars

\* Where the loop body starts: the "abort" Run has no wait.
LoopBody == IF variant = "abort" THEN "apply" ELSE "wait"

\* iter.Next(ctx), up to its fetch loop.
IterNextNoAdvance ==
    /\ pc = "next"
    /\ IF iter.err # Nil
       THEN pc' = "return" /\ iter' = iter
       ELSE IF iter.pos < Len(iter.page)
            THEN pc' = LoopBody /\ iter' = [iter EXCEPT !.pos = 1]
            ELSE pc' = "fetch" /\ iter' = iter
    /\ UNCHANGED <<keyspace, variant, f, db, db0, ret, cancelled, calls, waits, scans, logs>>
    /\ UNCHANGED toolVars
IterNext ==
    /\ pc = "next"
    /\ IF iter.err # Nil
       THEN pc' = "return" /\ iter' = iter
       ELSE IF iter.pos < Len(iter.page)
            THEN pc' = LoopBody /\ iter' = [iter EXCEPT !.pos = @ + 1]
            ELSE pc' = "fetch" /\ iter' = iter
    /\ UNCHANGED <<keyspace, variant, f, db, db0, ret, cancelled, calls, waits, scans, logs>>
    /\ UNCHANGED toolVars

\* One turn of the fetch loop of iter.Next(ctx).
IterFetch ==
    /\ pc = "fetch"
    /\ IF iter.cursor = 0
       THEN pc' = "return" /\ UNCHANGED <<iter, scans>>
       ELSE \E e \in ScanErrs, n \in 1..(Len(keyspace) - iter.cursor) :
              LET r == ScanReply(keyspace, iter.cursor, n, f.ScanPrefix, f.ScanType, db) IN
              /\ scans' = Append(scans, [err |-> e, calls |-> Len(calls)])
              /\ IF e # Nil
                 THEN pc' = "return" /\ iter' = [iter EXCEPT !.err = e]
                 ELSE /\ iter' = [page |-> r.page, pos |-> 1,
                                  cursor |-> r.cursor, err |-> Nil]
                      /\ pc' = IF Len(r.page) > 0 THEN LoopBody ELSE "fetch"
    /\ UNCHANGED <<keyspace, variant, f, db, db0, ret, cancelled, calls, waits, logs>>
    /\ UNCHANGED toolVars

\* if err := f.wait(ctx); err != nil { return err }
AfterWaitIgnoreErr(err) == [pc |-> "apply", ret |-> Nil]
AfterWait(err) ==
    IF err # Nil THEN [pc |-> "done", ret |-> err]
    ELSE [pc |-> "apply", ret |-> Nil]

Wait ==
    /\ pc = "wait"
    /\ LET err == wait IN
       /\ waits' = IF f.Limiter # "nil" THEN Append(waits, err) ELSE waits
       /\ pc' = AfterWait(err).pc
       /\ ret' = AfterWait(err).ret
    /\ UNCHANGED <<keyspace, variant, f, db, db0, iter, cancelled, calls, scans, logs>>
    /\ UNCHANGED toolVars

\* The error Run logs for a key whose command failed with err.
LoggedErr(err) == errInvalidMode

\* What Run does with the err of a key's command.
OnCmdErrContinue(v, err) == [pc |-> "next", ret |-> Nil]
OnCmdErrAbort(v, err) == [pc |-> "done", ret |-> err]
OnCmdErr(v, err) ==
    IF v = "abort" THEN [pc |-> "done", ret |-> err]
    ELSE [pc |-> "next", ret |-> Nil]

\* key := iter.Val(); ok, err := fn(ctx, key, f.DesiredTTL).Result() and the
\* rest of the loop body.
Apply ==
    /\ pc = "apply"
    /\ LET key == iter.page[iter.pos]
           r == ttlFuncs(f.Mode, db[key], f.DesiredTTL)
       IN \E err \in IF SendsCommand(f.Mode) THEN CmdErrs ELSE {Nil} :
            IF err # Nil
            THEN /\ calls' = Append(calls, [key |-> key, before |-> db[key],
                                            after |-> db[key], ok |-> FALSE,
                                            err |-> err,
                                            sent |-> SendsCommand(f.Mode)])
                 /\ db' = db
                 /\ pc' = OnCmdErr(variant, err).pc
                 /\ ret' = OnCmdErr(variant, err).ret
                 /\ logs' = IF variant = "abort" THEN logs
                            ELSE Append(logs, [kind |-> "error", key |-> <<>>,
                                               err |-> LoggedErr(err)])
            ELSE /\ calls' = Append(calls, [key |-> key, before |-> db[key],
                                            after |-> r.ttl, ok |-> r.ok,
                                            err |-> Nil,
                                            sent |-> SendsCommand(f.Mode)])
                 /\ db' = [db EXCEPT ![key] = r.ttl]
                 /\ pc' = "next"
                 /\ ret' = ret
                 /\ logs' = IF r.ok
                            THEN Append(logs, [kind |-> "ttl", key |-> key,
                                               err |-> Nil])
                            ELSE logs
    /\ UNCHANGED <<keyspace, variant, f, db0, iter, cancelled, waits, scans>>
    /\ UNCHANGED toolVars

\* What Run returns after its loop, from iter.Err().
AfterLoopNil(v, iterErr) == Nil
AfterLoop(v, iterErr) ==
    IF v = "abort" THEN iterErr
    ELSE IF iterErr # Nil THEN Wrap("iter error", iterErr) ELSE Nil

RunReturn ==
    /\ pc = "return"
    /\ pc' = "done"
    /\ ret' = AfterLoop(variant, iter.err)
    /\ UNCHANGED <<keyspace, variant, f, db, db0, iter, cancelled, calls, waits, scans, logs>>
    /\ UNCHANGED toolVars

\* The caller cancels ctx.
Cancel ==
    /\ pc # "done"
    /\ ~cancelled
    /\ cancelled' = TRUE
    /\ UNCHANGED <<keyspace, variant, f, db, db0, iter, pc, ret, calls, waits, scans, logs>>
    /\ UNCHANGED toolVars

Next ==
    \/ RunStart
    \/ IterNext
    \/ IterFetch
    \/ Wait
    \/ Apply
    \/ RunReturn
    \/ Cancel

Spec == Init /\ [][Next]_vars

\* ----------------------------------------------------------------- claims

\* The keys of the store that the pattern and type of the Scanner select, in
\* the order of the store's walk.
MatchingKeys ==
    SelectSeq(keyspace, LAMBDA k : /\ Match(f.ScanPrefix, k)
                                   /\ (f.ScanType = "" \/ KeyType(k) = f.ScanType))

\* The keys fn was invoked on, in order.
CalledKeys == [i \in 1..Len(calls) |-> calls[i].key]

\* The TTL the invocations of fn recorded so far leave on key k.
RECURSIVE TTLAfterCalls(_, _)
TTLAfterCalls(k, n) ==
    IF n = 0 THEN db0[k]
    ELSE IF calls[n].key = k THEN calls[n].after
    ELSE TTLAfterCalls(k, n - 1)

\* C1: with a Limiter configured, a Limiter.Wait that returns an error ends
\* the run: it is the last Wait, Run has returned exactly that error, fn was
\* invoked only for the keys whose Wait succeeded (so neither for the pending
\* key nor for a later one), and no TTL differs from what those earlier
\* invocations left.
C1_LimiterErrorAborts ==
    \A i \in 1..Len(waits) :
        waits[i] # Nil =>
            /\ f.Limiter # "nil"
            /\ i = Len(waits)
            /\ pc = "done"
            /\ ret = waits[i]
            /\ Len(calls) = i - 1
            /\ \A j \in 1..Len(calls) : calls[j].key # iter.page[iter.pos]
            /\ \A k \in Keys : db[k] = TTLAfterCalls(k, i - 1)

\* A Wait failed (ctx cancelled under rate.Limiter) after an earlier key was
\* dispatched and changed.
C1_Witness ==
    /\ pc = "done"
    /\ Len(waits) = 2
    /\ waits[2] # Nil
    /\ Len(calls) = 1
    /\ calls[1].ok
    /\ Len(MatchingKeys) = 2

\* C2: a SCAN request that fails (the first or a later one) is the last one;
\* from then on fn is not invoked and no TTL changes, and Run returns a
\* non-nil error, under either handling of per-key errors.
C2_ScanErrorFatal ==
    \A i \in 1..Len(scans) :
        scans[i].err # Nil =>
            /\ i = Len(scans)
            /\ Len(calls) = scans[i].calls
            /\ \A k \in Keys : db[k] = TTLAfterCalls(k, scans[i].calls)
            /\ pc \in {"next", "return", "done"}
            /\ pc = "done" => ret # Nil

\* A later SCAN failed after a key of an earlier batch was changed.
C2_Witness ==
    /\ pc = "done"
    /\ Len(scans) = 2
    /\ scans[2].err = errScan
    /\ Len(calls) = 1
    /\ calls[1].ok

\* C3: a Mode outside exp, gt, lt, nx, xx, noop, persist is rejected: Run
\* does not enter its loop, returns an error that wraps errInvalidMode,
\* invokes no policy function and leaves every TTL as it was.
C3_InvalidModeRejected ==
    f.Mode \notin {"exp", "gt", "lt", "nx", "xx", "noop", "persist"} =>
        /\ pc \in {"created", "done"}
        /\ pc = "done" => Is(ret, errInvalidMode)
        /\ calls = <<>>
        /\ db = db0

\* Run returned for mode zx with a matching key in the store.
C3_Witness ==
    /\ f.Mode = "zx"
    /\ pc = "done"
    /\ Len(MatchingKeys) > 0
    /\ ret = <<"mode is not supported", "invalid mode">>

\* C4: fn is invoked only on keys that match ScanPrefix and ScanType, and
\* the TTL of every other key is what it was when Run was called.
C4_OnlyMatchingKeys ==
    /\ \A i \in 1..Len(calls) :
          /\ Match(f.ScanPrefix, calls[i].key)
          /\ (f.ScanType = "" \/ KeyType(calls[i].key) = f.ScanType)
    /\ \A k \in Keys :
          ~(/\ Match(f.ScanPrefix, k)
            /\ (f.ScanType = "" \/ KeyType(k) = f.ScanType)) => db[k] = db0[k]

\* A completed run changed a matching key while the store holds a key that
\* does not match.
C4_Witness ==
    /\ pc = "done"
    /\ ret = Nil
    /\ Len(MatchingKeys) = 1
    /\ Len(calls) = 1
    /\ calls[1].ok
    /\ db # db0

\* C5: in the Run that aborts on a per-key error, a failed command is the
\* last invocation of fn: Run has returned that error and no later key is
\* dispatched.
C5_AbortOnCmdError ==
    variant = "abort" =>
        \A i \in 1..Len(calls) :
            calls[i].err # Nil =>
                /\ i = Len(calls)
                /\ pc = "done"
                /\ ret # Nil
                /\ ret = calls[i].err

\* The command of the first of two matching keys failed and Run returned.
C5_Witness ==
    /\ variant = "abort"
    /\ pc = "done"
    /\ Len(MatchingKeys) = 2
    /\ Len(calls) = 1
    /\ calls[1].err = errExpire

\* C6: in the Run that continues on a per-key error, a run with such an
\* error and no limiter, cancellation or scan error dispatches every
\* matching key in the store's order, each after its own Wait, and returns nil.
C6_ContinueOnCmdError ==
    (/\ variant = "continue"
     /\ pc = "done"
     /\ \E i \in 1..Len(calls) : calls[i].err # Nil
     /\ \A i \in 1..Len(waits) : waits[i] = Nil
     /\ \A i \in 1..Len(scans) : scans[i].err = Nil
     /\ ~cancelled) =>
        /\ ret = Nil
        /\ CalledKeys = MatchingKeys
        /\ f.Limiter # "nil" => Len(waits) = Len(calls)

\* The command of the first of two matching keys failed, the second key was
\* dispatched and changed, and Run returned nil.
C6_Witness ==
    /\ variant = "continue"
    /\ pc = "done"
    /\ ret = Nil
    /\ ~cancelled
    /\ Len(calls) = 2
    /\ calls[1].err = errExpire
    /\ calls[2].ok

\* C7: when Run has returned, every failed command's error is either the
\* error Run returned or carried by an error line of the log, and there are
\* as many error lines as failed commands that Run did not return.
C7_NoErrorDropped ==
    pc = "done" =>
        /\ \A i \in 1..Len(calls) :
              calls[i].err # Nil =>
                  \/ ret = calls[i].err
                  \/ \E j \in 1..Len(logs) :
                        logs[j].kind = "error" /\ logs[j].err = calls[i].err
        /\ Cardinality({j \in 1..Len(logs) : logs[j].kind = "error"})
             = Cardinality({i \in 1..Len(calls) :
                               calls[i].err # Nil /\ ret # calls[i].err})

\* DesiredTTL as the store receives it: cut down to whole seconds, and one
\* second when it is shorter than that.
SentTTL ==
    IF f.DesiredTTL > 0 /\ f.DesiredTTL < Second THEN Second
    ELSE f.DesiredTTL - (f.DesiredTTL % Second)

\* C8 as stated: a command of mode nx leaves a key that has a TTL as it is
\* and sets DesiredTTL on a key that has none; one of mode xx leaves a key
\* without TTL as it is and sets DesiredTTL on a key that has one.
C8_Original ==
    \A i \in 1..Len(calls) :
        calls[i].err = Nil =>
            /\ f.Mode = "nx" =>
                  calls[i].after = IF calls[i].before # NoTTL
                                   THEN calls[i].before ELSE f.DesiredTTL
            /\ f.Mode = "xx" =>
                  calls[i].after = IF calls[i].before = NoTTL
                                   THEN NoTTL ELSE f.DesiredTTL

\* C8, amended: as stated, but the TTL that nx and xx set is DesiredTTL cut
\* down to whole seconds (one second when DesiredTTL is shorter), not
\* DesiredTTL itself; a command that fails changes nothing.
C8_NxXx ==
    \A i \in 1..Len(calls) :
        /\ calls[i].err # Nil => calls[i].after = calls[i].before
        /\ calls[i].err = Nil =>
            /\ f.Mode = "nx" =>
                  /\ calls[i].ok = (calls[i].before = NoTTL)
                  /\ calls[i].after = IF calls[i].before # NoTTL
                                      THEN calls[i].before ELSE SentTTL
            /\ f.Mode = "xx" =>
                  /\ calls[i].ok = (calls[i].before # NoTTL)
                  /\ calls[i].after = IF calls[i].before = NoTTL
                                      THEN NoTTL ELSE SentTTL

\* Mode nx met a key without TTL, which it set, and a key with a TTL, which
\* it left.
C8_Witness ==
    /\ f.Mode = "nx"
    /\ pc = "done"
    /\ Len(calls) = 2
    /\ calls[1].before = NoTTL /\ calls[1].ok /\ calls[1].after = SentTTL
    /\ calls[2].before # NoTTL /\ ~calls[2].ok /\ calls[2].err = Nil
    /\ calls[2].before # SentTTL

C11_NoopChangesNothing ==
    f.Mode = "noop" =>
        /\ db = db0
        /\ logs = <<>>
        /\ \A i \in 1..Len(calls) :
              /\ ~calls[i].sent
              /\ ~calls[i].ok
              /\ calls[i].err = Nil
              /\ calls[i].after = calls[i].before
        /\ pc # "created" => Len(scans) >= 1
        /\ (pc = "done" /\ ret = Nil) =>
              /\ CalledKeys = MatchingKeys
              /\ f.Limiter # "nil" => Len(waits) = Len(calls)

\* A completed run of mode noop waited for and dispatched two keys, one of
\* which carries a TTL.
C11_Witness ==
    /\ f.Mode = "noop"
    /\ f.Limiter = "rate"
    /\ pc = "done"
    /\ ret = Nil
    /\ Len(calls) = 2
    /\ Len(waits) = 2
    /\ calls[1].before # NoTTL

\* No command of the run failed.
NoCallFailed == \A i \in 1..Len(calls) : calls[i].err = Nil

\* C12 as stated: after a completed run of mode exp in which no command
\* failed, every matching key has a TTL equal to DesiredTTL.
C12_Original ==
    (f.Mode = "exp" /\ pc = "done" /\ ret = Nil /\ NoCallFailed) =>
        \A i \in 1..Len(MatchingKeys) : db[MatchingKeys[i]] = f.DesiredTTL

\* C12, amended: after a completed run of mode exp in which no command
\* failed, every matching key has a TTL equal to DesiredTTL cut down to whole
\* seconds (one second when DesiredTTL is shorter), whether its TTL was
\* shorter, longer or absent before; every dispatch reports "applied".
C12_ExpUnconditional ==
    f.Mode = "exp" =>
        /\ \A i \in 1..Len(calls) :
              calls[i].err = Nil => calls[i].ok /\ calls[i].after = SentTTL
        /\ (pc = "done" /\ ret = Nil /\ NoCallFailed) =>
              \A i \in 1..Len(MatchingKeys) : db[MatchingKeys[i]] = SentTTL

\* A completed run of mode exp set a key that had a longer TTL and a key
\* that had none.
C12_Witness ==
    /\ f.Mode = "exp"
    /\ pc = "done"
    /\ ret = Nil
    /\ Len(calls) = 2
    /\ calls[1].before > SentTTL /\ calls[1].ok /\ db[calls[1].key] = SentTTL
    /\ calls[2].before = NoTTL /\ calls[2].ok /\ db[calls[2].key] = SentTTL

\* C18: a Scanner whose mode is not supported sends no SCAN and no other
\* command to the store.
C18_InvalidModeSendsNothing ==
    f.Mode \notin {"exp", "gt", "lt", "nx", "xx", "noop", "persist"} =>
        /\ scans = <<>>
        /\ calls = <<>>

\* C20: the keys fn was invoked on are, in order, a prefix of the keys the
\* scan yields; with a Limiter there is one Wait per invocation, the Wait of
\* a key comes after the invocation for the key before it, and a Wait is
\* without its invocation only while that invocation is about to happen or
\* when the Wait failed.
C20_SequentialInOrder ==
    /\ Len(calls) <= Len(MatchingKeys)
    /\ CalledKeys = SubSeq(MatchingKeys, 1, Len(calls))
    /\ f.Limiter # "nil" =>
          /\ Len(waits) \in {Len(calls), Len(calls) + 1}
          /\ Len(waits) = Len(calls) + 1 =>
                \/ pc = "apply"
                \/ pc = "done" /\ waits[Len(waits)] # Nil
          /\ pc = "wait" => Len(waits) = Len(calls)
    /\ pc = "apply" => iter.page[iter.pos] = MatchingKeys[Len(calls) + 1]

\* A run paced by a limiter dispatched two keys that came in two batches.
C20_Witness ==
    /\ f.Limiter = "rate"
    /\ pc = "done"
    /\ ret = Nil
    /\ Len(scans) = 2
    /\ Len(waits) = 2
    /\ Len(calls) = 2
    /\ calls[1].key # calls[2].key

\* ------------------------------------------- PrimaryNodesFromClusterNodes

\* A report is a sequence of lines, a line the sequence of its fields (the
\* pieces between single spaces), a field a sequence of pieces of text cut so
\* that "master", "@" and "," are pieces of their own.

\* <id> <ip:port@cport[,hostname]> <flags> <master> <ping-sent> <pong-recv>
\* <config-epoch> <link-state> <slot>
NodeLine(id, addr, flags, master, slots) ==
    <<id, addr, flags, master, <<"0">>, <<"0">>, <<"1">>, <<"connected">>>> \o slots

LineMaster ==
    NodeLine(<<"idA">>, <<"10.0.0.1:6379", "@", "16379">>, <<"master">>,
             <<"-">>, << <<"0-5460">> >>)
LineMyselfMaster ==
    NodeLine(<<"idB">>, <<"10.0.0.2:6379", "@", "16379">>,
             <<"myself", ",", "master">>, <<"-">>, << <<"5461-10922">> >>)
LineMasterHostname ==
    NodeLine(<<"idC">>, <<"10.0.0.3:6379", "@", "16379", ",", "node-c">>,
             <<"master">>, <<"-">>, << <<"10923-16383">> >>)
LineReplica ==
    NodeLine(<<"idD">>, <<"10.0.0.4:6379", "@", "16379">>, <<"slave">>,
             <<"idA">>, <<>>)
\* A replica that announces a hostname with "master" in it.
LineReplicaHostname ==
    NodeLine(<<"idE">>, <<"10.0.0.5:6379", "@", "16379", ",", "redis-", "master", "-b">>,
             <<"slave">>, <<"idB">>, <<>>)
\* Malformed lines: one field, two fields, and the empty line.
LineOneFieldMaster == << <<"master">> >>
LineTwoFields == << <<"idF">>, <<"master">> >>
LineOneField == << <<"garbage">> >>
LineEmpty == <<>>

Lines ==
    {LineMaster, LineMyselfMaster, LineMasterHostname, LineReplica,
     LineReplicaHostname, LineOneFieldMaster, LineTwoFields, LineOneField,
     LineEmpty}

\* Most lines in a report.
MaxLines == 3

Reports == UNION {[1..n -> Lines] : n \in 0..MaxLines}

\* strings.Contains(line, "master")
ContainsMaster(line) ==
    \E i \in 1..Len(line) : \E j \in 1..Len(line[i]) : line[i][j] = "master"

\* strings.Split(field, "@")[0]
RECURSIVE BeforeAt(_)
BeforeAt(field) ==
    IF field = <<>> \/ Head(field) = "@" THEN <<>>
    ELSE <<Head(field)>> \o BeforeAt(Tail(field))

\* The loop of PrimaryNodesFromClusterNodes from line i on, res being the
\* addresses so far: parts[1] of a line of one field is out of range.
RECURSIVE ScanLines(_, _, _)
ScanLines(report, i, res) ==
    IF i > Len(report) THEN [state |-> "ok", nodes |-> res]
    ELSE IF ~ContainsMaster(report[i]) THEN ScanLines(report, i + 1, res)
    ELSE IF Len(report[i]) < 2 THEN [state |-> "panic", nodes |-> <<>>]
    ELSE ScanLines(report, i + 1, Append(res, BeforeAt(report[i][2])))

PrimaryNodesFromClusterNodes(report) == ScanLines(report, 1, <<>>)

\* Nothing of a Scanner has run.
ScanIdle ==
    /\ keyspace = <<foo, zoo>>
    /\ variant = "continue"
    /\ f = [Mode |-> "noop", ScanPrefix |-> <<"*">>, ScanType |-> "",
            DesiredTTL |-> Second, Limiter |-> "nil"]
    /\ db = [k \in Keys |-> NoTTL]
    /\ db0 = db
    /\ iter = [page |-> <<>>, pos |-> 0, cursor |-> 0, err |-> Nil]
    /\ pc = "none"
    /\ ret = Nil
    /\ cancelled = FALSE
    /\ calls = <<>>
    /\ waits = <<>>
    /\ scans = <<>>
    /\ logs = <<>>

InitResolver ==
    /\ ScanIdle /\ RerunIdle /\ ConfigIdle /\ TtlIdle /\ GroupIdle
    /\ clusterNodes \in Reports
    /\ primaries = [state |-> "none", nodes |-> <<>>]

\* primaries := redisttl.PrimaryNodesFromClusterNodes(nodes)
Resolve ==
    /\ primaries.state = "none"
    /\ primaries' = PrimaryNodesFromClusterNodes(clusterNodes)
    /\ UNCHANGED <<clusterNodes, scanVars, rerunVars, configVars, ttlVars, groupVars>>

NextResolver == Resolve

SpecResolver == InitResolver /\ [][NextResolver]_vars

\* A line of the full format (eight fields or more).
WellFormed(line) == Len(line) >= 8

\* A line whose flags field holds the token master.
IsMasterLine(line) ==
    Len(line) >= 3 /\ \E j \in 1..Len(line[3]) : line[3][j] = "master"

\* ip:port of a line: the first piece of its address field.
AddrOf(line) == <<line[2][1]>>

\* The addresses of the master lines of a report, in line order.
RECURSIVE MasterAddrs(_)
MasterAddrs(report) ==
    IF report = <<>> THEN <<>>
    ELSE (IF IsMasterLine(Head(report)) THEN <<AddrOf(Head(report))>> ELSE <<>>)
         \o MasterAddrs(Tail(report))

\* C14: for a report of well-formed lines the result is, in line order and
\* without deduplication, the ip:port of each line whose flags hold master,
\* and of no other line; the empty report gives the empty sequence.
C14_MasterAddrsInOrder ==
    (/\ primaries.state # "none"
     /\ \A i \in 1..Len(clusterNodes) : WellFormed(clusterNodes[i])) =>
        /\ primaries.state = "ok"
        /\ primaries.nodes = MasterAddrs(clusterNodes)

\* C15: a line with a flags field that does not hold master contributes no
\* address: the result has at most as many addresses as the report has
\* other lines.
C15_ReplicasExcluded ==
    primaries.state # "none" =>
        Len(primaries.nodes) <=
            Cardinality({i \in 1..Len(clusterNodes) :
                            ~(/\ Len(clusterNodes[i]) >= 3
                              /\ ~IsMasterLine(clusterNodes[i]))})

\* C16: a line of fewer than three fields does not crash the function and
\* contributes no address: the result has at most as many addresses as the
\* report has lines of three fields or more.
C16_ShortLinesSkipped ==
    primaries.state # "none" =>
        /\ primaries.state = "ok"
        /\ Len(primaries.nodes) <=
              Cardinality({i \in 1..Len(clusterNodes) : Len(clusterNodes[i]) >= 3})

\* ------------------------------------------------- config.Err and run()

\* Durations of the command line are counted in hours.
Hour == 1

errTTL == <<"invalid ttl">>
errRPS == <<"invalid rps">>
errNoAddr == <<"both --redis-addr and --redis-cluster-addrs cannot be empty">>

defaultConfig ==
    [mode |-> "noop", desiredTTL |-> 1 * Hour, rps |-> 100, redisAddr |-> ":6379",
     redisClusterAddrs |-> ""]

\* The configs the flags can produce.
Configs ==
    [mode : Modes, desiredTTL : {-Hour, 0, Hour}, rps : {-1, 0, 1, 100},
     redisAddr : {"", ":6379"}, redisClusterAddrs : {"", "node1:6379"}]

\* The switch of config.Err with its first two cases in the other order.
ErrRpsFirst(c) ==
    IF c.rps <= 0 THEN Wrap("rps must be greater than 0", errRPS)
    ELSE IF c.desiredTTL <= 0 /\ c.mode # "persist"
        THEN Wrap("invalid desired-ttl value", errTTL)
    ELSE IF c.redisAddr = "" /\ c.redisClusterAddrs = "" THEN errNoAddr
    ELSE Nil

\* func (c *config) Err() error
Err(c) ==
    IF c.desiredTTL <= 0 /\ c.mode # "persist"
        THEN Wrap("invalid desired-ttl value", errTTL)
    ELSE IF c.rps <= 0 THEN Wrap("rps must be greater than 0", errRPS)
    ELSE IF c.redisAddr = "" /\ c.redisClusterAddrs = "" THEN errNoAddr
    ELSE Nil

InitConfig ==
    /\ ScanIdle /\ RerunIdle /\ ResolverIdle /\ TtlIdle /\ GroupIdle
    /\ cfg \in Configs
    /\ started = [state |-> "parsed", err |-> Nil, clients |-> {}]

\* if err := cfg.Err(); err != nil { return err }
Validate ==
    /\ started.state = "parsed"
    /\ started' = [started EXCEPT !.state = IF Err(cfg) # Nil THEN "returned" ELSE "valid",
                                   !.err = Err(cfg)]
    /\ UNCHANGED <<cfg, scanVars, rerunVars, resolverVars, ttlVars, groupVars>>

\* redis.NewClusterClient when --redis-cluster-addrs is given, else redis.NewClient
Connect ==
    /\ started.state = "valid"
    /\ started' = [started EXCEPT !.state = "connected",
                                   !.clients = IF cfg.redisClusterAddrs # ""
                                               THEN {"redis-ttl-cluster"}
                                               ELSE {"redis-ttl"}]
    /\ UNCHANGED <<cfg, scanVars, rerunVars, resolverVars, ttlVars, groupVars>>

NextConfig == Validate \/ Connect

SpecConfig == InitConfig /\ [][NextConfig]_vars

\* C17: once config.Err has run, a non-positive desiredTTL in a mode other
\* than persist gave an error wrapping errTTL; otherwise a non-positive rps
\* gave an error wrapping errRPS; the default configuration gave no error;
\* and with a validation error run() returned it and created no client.
C17_ValidationFirst ==
    started.state \notin {"none", "parsed"} =>
        /\ (cfg.desiredTTL <= 0 /\ cfg.mode # "persist") => Is(started.err, errTTL)
        /\ (~(cfg.desiredTTL <= 0 /\ cfg.mode # "persist") /\ cfg.rps <= 0) =>
               Is(started.err, errRPS)
        /\ cfg = defaultConfig => started.err = Nil
        /\ started.err # Nil => (started.state = "returned" /\ started.clients = {})
        /\ started.clients # {} => Err(cfg) = Nil

\* A config with a zero TTL in mode noop and a zero rps was rejected for its TTL.
C17_Witness ==
    /\ started.state = "returned"
    /\ cfg.mode = "noop" /\ cfg.desiredTTL = 0 /\ cfg.rps = 0
    /\ Is(started.err, errTTL)
    /\ started.clients = {}

\* ------------------------------------------------------ ttl.UnmarshalText

\* A text is a sequence of characters.
Digits == {"0", "1", "9"}
Chars == Digits \cup {"d", "w", "h", "y"}

\* Longest text.
MaxText == 4

Texts == UNION {[1..n -> Chars] : n \in 0..MaxText}

\* time.Duration is a signed word counting nanoseconds in 64 bits, and
\* strconv.ParseUint(s, 10, 64) fills an unsigned word of the same width.
\* Here the words count hours and are WordBits wide, so that the arithmetic
\* of "<n>d" and "<n>w" leaves the word on texts of MaxText characters as it
\* leaves 64 bits on longer ones.
WordBits == 12

MaxInt == 2 ^ (WordBits - 1) - 1
MaxUint == 2 ^ WordBits - 1

\* The signed word holding n.
ToDuration(n) ==
    LET m == n % (2 ^ WordBits)
    IN  IF m > MaxInt THEN m - 2 ^ WordBits ELSE m

DigitValue(c) == CASE c = "0" -> 0 [] c = "1" -> 1 [] c = "9" -> 9

\* The number a sequence of digits writes in base 10.
RECURSIVE Value(_)
Value(s) ==
    IF s = <<>> THEN 0
    ELSE 10 * Value(SubSeq(s, 1, Len(s) - 1)) + DigitValue(s[Len(s)])

IsDigits(s) == s # <<>> /\ \A i \in 1..Len(s) : s[i] \in Digits

\* How many characters at the head of s are in set cs.
RECURSIVE Lead(_, _)
Lead(s, cs) ==
    IF s = <<>> \/ Head(s) \notin cs THEN 0 ELSE 1 + Lead(Tail(s), cs)

\* The loop of time.ParseDuration on what is left of the text, d being the
\* duration so far: digits, then a unit, which of the units written with
\* Chars can only be h; a number or a sum that leaves the word is an error.
RECURSIVE ParseGroups(_, _)
ParseGroups(s, d) ==
    IF s = <<>> THEN [ok |-> TRUE, dur |-> d]
    ELSE LET nd == Lead(s, Digits)
             rest == SubSeq(s, nd + 1, Len(s))
             nu == Lead(rest, Chars \ Digits)
             v == Value(SubSeq(s, 1, nd)) * Hour
         IN  IF \/ nd = 0
                \/ SubSeq(rest, 1, nu) # <<"h">>
                \/ v > MaxInt
                \/ d + v > MaxInt
             THEN [ok |-> FALSE, dur |-> 0]
             ELSE ParseGroups(SubSeq(rest, nu + 1, Len(rest)), d + v)

\* time.ParseDuration(s)
ParseDuration(s) ==
    IF s = <<"0">> THEN [ok |-> TRUE, dur |-> 0]
    ELSE IF s = <<>> THEN [ok |-> FALSE, dur |-> 0]
    ELSE ParseGroups(s, 0)

errSyntax == <<"invalid syntax">>
errRange == <<"value out of range">>

\* strconv.ParseUint(s, 10, 64)
ParseUint(s) ==
    IF ~IsDigits(s) THEN [n |-> 0, err |-> Wrap("strconv.ParseUint", errSyntax)]
    ELSE IF Value(s) > MaxUint
        THEN [n |-> MaxUint, err |-> Wrap("strconv.ParseUint", errRange)]
    ELSE [n |-> Value(s), err |-> Nil]

extras == ("d" :> 24 * Hour) @@ ("w" :> 24 * 7 * Hour)

\* func (d *ttl) UnmarshalText(text []byte) error, on a ttl whose dur is dur:
\* the dur it leaves and the error it returns.
UnmarshalText(t, dur) ==
    IF Len(t) = 0 THEN [dur |-> dur, err |-> errTTL]
    ELSE IF ParseDuration(t).ok THEN [dur |-> ParseDuration(t).dur, err |-> Nil]
    ELSE LET suffix == t[Len(t)]
             u == ParseUint(SubSeq(t, 1, Len(t) - 1))
         IN  IF suffix \notin DOMAIN extras
                 THEN [dur |-> dur, err |-> Wrap("unknown duration suffix", errTTL)]
             ELSE IF u.err # Nil THEN [dur |-> dur, err |-> u.err]
             ELSE IF u.n = 0
                 THEN [dur |-> dur,
                       err |-> Wrap("duration has to be greater than 0", errTTL)]
             ELSE [dur |-> ToDuration(ToDuration(u.n) * extras[suffix]), err |-> Nil]

InitTtl ==
    /\ ScanIdle /\ RerunIdle /\ ResolverIdle /\ ConfigIdle /\ GroupIdle
    /\ text \in Texts
    /\ parsed = [state |-> "none", dur |-> 0, err |-> Nil]

\* dur := ttl{}; err := dur.UnmarshalText([]byte(text))
Unmarshal ==
    /\ parsed.state = "none"
    /\ parsed' = [state |-> "done",
                  dur |-> UnmarshalText(text, parsed.dur).dur,
                  err |-> UnmarshalText(text, parsed.dur).err]
    /\ UNCHANGED <<text, scanVars, rerunVars, resolverVars, configVars, groupVars>>

NextTtl == Unmarshal

SpecTtl == InitTtl /\ [][NextTtl]_vars

\* The text is <n>d or <n>w, n written in digits.
IsDaysOrWeeks(t) ==
    /\ Len(t) >= 2
    /\ t[Len(t)] \in {"d", "w"}
    /\ IsDigits(SubSeq(t, 1, Len(t) - 1))

\* The letters of a text.
Letters(t) == {i \in 1..Len(t) : t[i] \notin Digits}

\* C19: on a text <n>d or <n>w UnmarshalText fails or stores a strictly
\* positive duration of n x 24h, resp. n x 168h; and it fails on the empty
\* text, on n = 0, on the suffix y, on a prefix of d or w that is not a
\* number, and on a compound form such as 1w1h.
C19_DaysWeeksExact ==
    parsed.state = "done" =>
        /\ IsDaysOrWeeks(text) =>
              \/ parsed.err # Nil
              \/ /\ parsed.dur > 0
                 /\ parsed.dur = Value(SubSeq(text, 1, Len(text) - 1))
                                    * (IF text[Len(text)] = "d" THEN 24 ELSE 168) * Hour
        /\ text = <<>> => parsed.err # Nil
        /\ (IsDaysOrWeeks(text) /\ Value(SubSeq(text, 1, Len(text) - 1)) = 0) =>
              parsed.err # Nil
        /\ (text # <<>> /\ text[Len(text)] = "y") => parsed.err # Nil
        /\ (/\ text # <<>>
            /\ text[Len(text)] \in {"d", "w"}
            /\ ~IsDigits(SubSeq(text, 1, Len(text) - 1))) => parsed.err # Nil
        /\ (/\ Cardinality(Letters(text)) >= 2
            /\ \E i \in Letters(text) : text[i] \in {"d", "w"}) => parsed.err # Nil

\* ------------------------------------------------------ cluster fan-out

\* Most primaries, and most keys a primary holds.
NumShards == 2
MaxShardKeys == 2

PrimaryNames == <<"10.0.0.1:6379", "10.0.0.2:6379", "10.0.0.3:6379", "10.0.0.4:6379">>

\* What the Run of primary i returns when a SCAN on that primary fails.
ShardErr(i) == AfterLoop("continue", Wrap(PrimaryNames[i], errScan))

\* g.errOnce.Do(func() { g.err = err }): the Group keeps the first error.
GroupErr(cur, err) == IF cur = Nil THEN err ELSE cur

\* g.wg.Wait() returns: every goroutine of the Group has returned.
WaitReadyAny(sh) == \E i \in 1..Len(sh) : sh[i].state = "done"
WaitReady(sh) == \A i \in 1..Len(sh) : sh[i].state = "done"

InitFanOut ==
    /\ ScanIdle /\ RerunIdle /\ ResolverIdle /\ ConfigIdle /\ TtlIdle
    /\ \E n \in 0..NumShards :
          shards \in [1..n -> [state : {"idle"}, keys : 0..MaxShardKeys,
                               left : 0..MaxShardKeys, err : {Nil}]]
    /\ \A i \in 1..Len(shards) : shards[i].left = shards[i].keys
    /\ group = [state |-> "spawning", started |-> 0, err |-> Nil, ret |-> Nil]
    /\ failOrder = <<>>

\* g.Go(func() error { ...; return f.Run(context.Background()) }) for the
\* next primary of the loop.
Go(i) ==
    /\ group.state = "spawning"
    /\ group.started = i - 1
    /\ shards[i].state = "idle"
    /\ shards' = [shards EXCEPT ![i].state = "running"]
    /\ group' = [group EXCEPT !.started = i]
    /\ UNCHANGED <<failOrder, scanVars, rerunVars, resolverVars, configVars, ttlVars>>

\* The Run of primary i dispatches its next key.
ShardStep(i) ==
    /\ shards[i].state = "running"
    /\ shards[i].left > 0
    /\ shards' = [shards EXCEPT ![i].left = @ - 1]
    /\ UNCHANGED <<group, failOrder, scanVars, rerunVars, resolverVars, configVars, ttlVars>>

\* The Run of primary i returns an error; its goroutine hands it to the Group.
ShardFail(i) ==
    /\ shards[i].state = "running"
    /\ shards' = [shards EXCEPT ![i].state = "done", ![i].err = ShardErr(i)]
    /\ group' = [group EXCEPT !.err = GroupErr(group.err, ShardErr(i))]
    /\ failOrder' = Append(failOrder, i)
    /\ UNCHANGED <<scanVars, rerunVars, resolverVars, configVars, ttlVars>>

\* The Run of primary i returns nil once its scan is over.
ShardFinish(i) ==
    /\ shards[i].state = "running"
    /\ shards[i].left = 0
    /\ shards' = [shards EXCEPT ![i].state = "done"]
    /\ UNCHANGED <<group, failOrder, scanVars, rerunVars, resolverVars, configVars, ttlVars>>

\* return g.Wait()
GroupWait ==
    /\ group.state = "spawning"
    /\ group.started = Len(shards)
    /\ WaitReady(shards)
    /\ group' = [group EXCEPT !.state = "returned", !.ret = group.err]
    /\ UNCHANGED <<shards, failOrder, scanVars, rerunVars, resolverVars, configVars, ttlVars>>

NextFanOut ==
    \/ \E i \in 1..Len(shards) : Go(i)
    \/ \E i \in 1..Len(shards) : ShardStep(i)
    \/ \E i \in 1..Len(shards) : ShardFail(i)
    \/ \E i \in 1..Len(shards) : ShardFinish(i)
    \/ GroupWait

SpecFanOut == InitFanOut /\ [][NextFanOut]_vars

\* C13: when the fan-out returns every per-primary run has terminated; it
\* returns an error iff some run failed, and then the error of the run that
\* failed first; and every run that did not fail itself dispatched all the
\* keys of its primary, whatever its siblings did.
C13_FanOutWaitsForAll ==
    group.state = "returned" =>
        /\ \A i \in 1..Len(shards) : shards[i].state = "done"
        /\ group.ret # Nil <=> \E i \in 1..Len(shards) : shards[i].err # Nil
        /\ failOrder # <<>> => group.ret = shards[failOrder[1]].err
        /\ \A i \in 1..Len(shards) : shards[i].err = Nil => shards[i].left = 0

\* Both runs had started when one failed with keys left; the other one
\* dispatched all of its keys and the fan-out returned the one error.
C13_Witness ==
    /\ group.state = "returned"
    /\ Len(shards) = 2
    /\ failOrder = <<2>>
    /\ shards[2].left > 0
    /\ shards[1].keys > 0 /\ shards[1].left = 0 /\ shards[1].err = Nil
    /\ group.ret = ShardErr(2)

\* --------------------------------------------------------- cancellation

\* C21: a Run whose ctx was cancelled while it was in progress, with a key
\* still pending whose command the cancellation failed, returns a non-nil
\* error; and the TTLs are what the invocations of fn before and after the
\* cancellation left (nothing is rolled back).
C21_CancelFatal ==
    (/\ pc = "done"
     /\ cancelled
     /\ \E i \in 1..Len(calls) : calls[i].err = errCanceled) =>
        /\ ret # Nil
        /\ \A k \in Keys : db[k] = TTLAfterCalls(k, Len(calls))

\* ------------------------------------------------- the same job run twice

\* The job of src/redis.go without a Limiter, its ctx never cancelled.
InitTwice ==
    /\ keyspace \in KeyOrders
    /\ variant = "continue"
    /\ f \in {s \in Scanners(variant) : s.Limiter = "nil"}
    /\ db \in [Keys -> NoTTL..MaxTTL]
    /\ db0 = db
    /\ iter = [page |-> <<>>, pos |-> 0, cursor |-> 0, err |-> Nil]
    /\ pc = "created"
    /\ ret = Nil
    /\ cancelled = FALSE
    /\ calls = <<>>
    /\ waits = <<>>
    /\ scans = <<>>
    /\ logs = <<>>
    /\ ToolIdle

\* The caller calls Run on the same Scanner again, right after a Run that
\* returned nil.
Rerun ==
    /\ pc = "done"
    /\ ret = Nil
    /\ runs.n = 1
    /\ runs' = [n |-> 2, clean |-> NoCallFailed]
    /\ db0' = db
    /\ iter' = [page |-> <<>>, pos |-> 0, cursor |-> 0, err |-> Nil]
    /\ pc' = "created"
    /\ calls' = <<>>
    /\ waits' = <<>>
    /\ scans' = <<>>
    /\ logs' = <<>>
    /\ UNCHANGED <<keyspace, variant, f, db, ret, cancelled>>
    /\ UNCHANGED <<resolverVars, configVars, ttlVars, groupVars>>

NextTwice ==
    \/ RunStart
    \/ IterNext
    \/ IterFetch
    \/ Wait
    \/ Apply
    \/ RunReturn
    \/ Rerun

SpecTwice == InitTwice /\ [][NextTwice]_vars

InitDelete ==
    /\ keyspace \in KeyOrders
    /\ variant \in {"abort", "continue"}
    /\ f \in {s \in Scanners(variant) : s.Limiter = "nil"}
    /\ db \in [Keys -> NoTTL..MaxTTL]
    /\ db0 = db
    /\ iter = [page |-> <<>>, pos |-> 0, cursor |-> 0, err |-> Nil]
    /\ pc = "created"
    /\ ret = Nil
    /\ cancelled = FALSE
    /\ calls = <<>>
    /\ waits = <<>>
    /\ scans = <<>>
    /\ logs = <<>>
    /\ ToolIdle

\* Another client deletes key k while Run is in progress.
Delete(k) ==
    /\ pc # "done"
    /\ db[k] # NoKey
    /\ db' = [db EXCEPT ![k] = NoKey]
    /\ UNCHANGED <<keyspace, variant, f, db0, iter, pc, ret, cancelled, calls, waits, scans, logs>>
    /\ UNCHANGED toolVars

NextDelete ==
    \/ RunStart
    \/ IterNext
    \/ IterFetch
    \/ Wait
    \/ Apply
    \/ RunReturn
    \/ \E k \in Keys : Delete(k)

SpecDelete == InitDelete /\ [][NextDelete]_vars

\* The invocations of fn on a key that was gone, which the store answered.
MissingCalls == {i \in 1..Len(calls) : calls[i].before = NoKey /\ calls[i].err = Nil}

\* C23: an invocation of fn on a key that was deleted after the scan yielded
\* it reports "not applied" and leaves the key missing; Run logs nothing for
\* that key, neither a TTL line nor an error line, and does not return
\* because of it: if Run is over right after such an invocation, it returned
\* what its loop's end returns.
C23_MissingKeySkipped ==
    /\ \A i \in MissingCalls :
          /\ ~calls[i].ok
          /\ calls[i].after = NoKey
          /\ db[calls[i].key] = NoKey
          /\ \A j \in 1..Len(logs) : logs[j].key # calls[i].key
    /\ Cardinality({j \in 1..Len(logs) : logs[j].kind = "error"})
          <= Cardinality({i \in 1..Len(calls) : calls[i].err # Nil})
    /\ (pc = "done" /\ Len(calls) \in MissingCalls) => ret = AfterLoop(variant, iter.err)

\* foo was deleted after the scan yielded it: its EXPIRE was not applied, and
\* Run went on to zoo, applied it there and returned nil.
C23_Witness ==
    /\ pc = "done" /\ ret = Nil
    /\ Len(calls) = 2
    /\ calls[1].key = foo /\ calls[1].before = NoKey /\ calls[1].err = Nil
    /\ calls[1].sent /\ ~calls[1].ok
    /\ calls[2].key = zoo /\ calls[2].ok
    /\ db[foo] = NoKey

====
